---- MODULE Spec2Model ----
(***************************************************************************)
(* The species record editor (SpeciesDetailsDialog) of                     *)
(* src/app/species/species-details-dialog.tsx as a state machine: one      *)
(* editor per species row, the backing store, the requests in flight, the  *)
(* notification surface and the route reload.                              *)
(*                                                                         *)
(* Strings are sequences of one-character strings.  A nullable value is a  *)
(* set: {} is null, {v} is the value v.  A JavaScript number is a record   *)
(* [int, tenths] standing for int + tenths/10, with tenths in 0..9.        *)
(***************************************************************************)
EXTENDS Integers, Sequences, FiniteSets, TLC

\* Bounds of the model: field-change events and backend requests per behaviour.
MaxChanges == 1
MaxRequests == 2

Records == {1, 2}
Users == {"u1", "u2"}
CurrentUser == "u1"
ErrorMessages == {"e1", "e2"}

Null == {}
Some(v) == {v}
Val(o) == CHOOSE v \in o : TRUE

Num(i, t) == [int |-> i, tenths |-> t]

---------------------------------------------------------------------------
\* String helpers (String.prototype.trim, the URL parser).

Space == " "
Letters == {"a", "b", "c", "d"}

RECURSIVE TrimStart(_)
TrimStart(s) == IF s # <<>> /\ Head(s) = Space THEN TrimStart(Tail(s)) ELSE s

RECURSIVE TrimEnd(_)
TrimEnd(s) ==
    IF s # <<>> /\ s[Len(s)] = Space THEN TrimEnd(SubSeq(s, 1, Len(s) - 1)) ELSE s

Trim(s) == TrimEnd(TrimStart(s))

\* new URL(s) succeeds: after stripping surrounding spaces the string starts
\* with a non-empty scheme of letters followed by ":".
IsUrl(s) ==
    LET t == Trim(s)
    IN  \E i \in 2..Len(t) : t[i] = ":" /\ \A j \in 1..(i - 1) : t[j] \in Letters

---------------------------------------------------------------------------
\* speciesSchema: per-field checks and transforms.

Kingdoms == {"Animalia", "Plantae", "Fungi", "Protista", "Archaea", "Bacteria"}

\* Mutant of BlankToNull: a non-blank value is passed on untrimmed.
BlankToNullUntrimmed(o) ==
    IF o = Null \/ Val(o) = <<>> \/ Trim(Val(o)) = <<>> THEN Null ELSE o

\* (val) => (!val || val.trim() === "" ? null : val.trim())
BlankToNull(o) ==
    IF o = Null \/ Val(o) = <<>> \/ Trim(Val(o)) = <<>> THEN Null ELSE Some(Trim(Val(o)))

\* z.string().trim().min(1)
ScientificNameOk(s) == Len(Trim(s)) >= 1

\* z.enum([...])
KingdomOk(k) == k \in Kingdoms

\* Mutant of TotalPopulationOk: the .int() check is missing.
TotalPopulationOkFractions(o) ==
    \/ o = Null
    \/ /\ (Val(o).int > 0 \/ (Val(o).int = 0 /\ Val(o).tenths > 0))
       /\ Val(o).int >= 1

\* z.number().int().positive().min(1).nullable()
TotalPopulationOk(o) ==
    \/ o = Null
    \/ /\ Val(o).tenths = 0
       /\ (Val(o).int > 0 \/ (Val(o).int = 0 /\ Val(o).tenths > 0))
       /\ Val(o).int >= 1

\* z.string().url().nullable()
ImageOk(o) == o = Null \/ IsUrl(Val(o))

\* speciesSchema.safeParse(raw): whether raw passes, and the parsed output.
SchemaOk(raw) ==
    /\ ScientificNameOk(raw.scientific_name)
    /\ KingdomOk(raw.kingdom)
    /\ TotalPopulationOk(raw.total_population)
    /\ ImageOk(raw.image)
    /\ raw.endangered \in BOOLEAN

SchemaOutput(raw) ==
    [scientific_name  |-> Trim(Trim(raw.scientific_name)),
     common_name      |-> BlankToNull(raw.common_name),
     kingdom          |-> raw.kingdom,
     total_population |-> raw.total_population,
     image            |-> BlankToNull(raw.image),
     description      |-> BlankToNull(raw.description),
     endangered       |-> raw.endangered]

---------------------------------------------------------------------------
\* State.

VARIABLES
    store,           \* the species table: row of each record identifier
    present,         \* identifiers whose row is still in the table
    species,         \* the `species` prop each editor was last rendered with
    mounted,         \* identifiers whose editor is rendered
    isEditing,       \* useState(false) of each editor
    form,            \* current values of each editor's form
    formDefaults,    \* the form's own default values (its baseline)
    updates,         \* update requests in flight
    deletes,         \* delete requests in flight
    toast,           \* the notification surfaced last
    refreshPending,  \* router.refresh() was called and the reload has not landed
    lastEvent,       \* the handler that ran last, and its answer or outcome
    lastSaved,       \* values of the most recent successful Confirm per record
    nRequests,       \* requests issued so far
    nChanges,        \* field-change events so far
    overwrote        \* what the last successful update response found in its editor

\* The profile list page (UsersList of src/app/users/page.tsx).
VARIABLES
    profiles,        \* the profiles table: the identifiers of its rows
    session,         \* what getSession returned: Null or the user's identifier
    listPc,          \* where UsersList is: start, redirected, fetching, rendered
    fetches,         \* profile fetches issued so far
    fetched,         \* the data of the profile fetch: Null or the rows
    page             \* what UsersList rendered

usersVars == <<profiles, session, listPc, fetches, fetched, page>>

editorVars == <<store, present, species, mounted, isEditing, form, formDefaults,
                updates, deletes, toast, refreshPending, lastEvent, lastSaved,
                nRequests, nChanges, overwrote>>

vars == <<editorVars, usersVars>>


\* const defaultValues = {...}: the form values of a row.
DefaultValues(sp) ==
    [scientific_name  |-> sp.scientific_name,
     common_name      |-> sp.common_name,
     kingdom          |-> sp.kingdom,
     total_population |-> sp.total_population,
     image            |-> sp.image,
     description      |-> sp.description,
     endangered       |-> IF sp.endangered = Null THEN FALSE ELSE Val(sp.endangered)]

\* The rows the table starts with.
InitialRow(r, author) ==
    IF r = 1
    THEN [id |-> 1, author |-> "u1",
          scientific_name |-> <<"a">>, common_name |-> Null,
          kingdom |-> "Animalia", total_population |-> Null,
          image |-> Null, description |-> Null, endangered |-> Null]
    ELSE [id |-> r, author |-> author,
          scientific_name |-> <<"b">>, common_name |-> Some(<<"c">>),
          kingdom |-> "Plantae", total_population |-> Some(Num(2, 0)),
          image |-> Some(<<"a", ":">>), description |-> Some(<<"d">>),
          endangered |-> Some(TRUE)]

NoToast == [title |-> "", description |-> <<"", <<>>>>, variant |-> "none"]
Event(op, r, arg) == [op |-> op, rec |-> r, arg |-> arg]

\* What UsersList renders before it has run.
NoPage == [cards |-> <<>>, fallback |-> ""]

\* The profile list page has not been requested.
UsersIdle ==
    /\ profiles = {}
    /\ session = Null
    /\ listPc = "start"
    /\ fetches = 0
    /\ fetched = Null
    /\ page = NoPage

\* The editors after the list has rendered one editor per row.
EditorsMounted(author) ==
    /\ store = [r \in Records |-> InitialRow(r, author)]
    /\ present = Records
    /\ species = store
    /\ mounted = Records
    /\ isEditing = [r \in Records |-> FALSE]
    /\ form = [r \in Records |-> DefaultValues(store[r])]
    /\ formDefaults = form
    /\ updates = {}
    /\ deletes = {}
    /\ toast = NoToast
    /\ refreshPending = FALSE
    /\ lastEvent = Event("mount", 0, "")
    /\ lastSaved = form
    /\ nRequests = 0
    /\ nChanges = 0
    /\ overwrote = "nothing"

\* The state after the list has rendered one editor per row.
InitWith(author) == EditorsMounted(author) /\ UsersIdle

\* The signed-in user authored the first row; the second row is someone else's.
Init == InitWith("u2")

---------------------------------------------------------------------------
\* The editor's handlers.

\* Mutant of CanEdit: the buttons are rendered for every user.
CanEditAnyone(r) == TRUE

\* {currentUser === species.author && (...)}: the buttons are rendered.
CanEdit(r) == CurrentUser = species[r].author

\* Mutant of StartEditing: one flag is shared by all the editors.
StartEditingShared(r) ==
    /\ r \in mounted /\ CurrentUser = species[r].author /\ ~isEditing[r]
    /\ isEditing' = [x \in Records |-> TRUE]
    /\ lastEvent' = Event("edit", r, "")
    /\ UNCHANGED <<store, present, species, mounted, form, formDefaults, updates,
                   deletes, toast, refreshPending, lastSaved, nRequests, nChanges>>
    /\ UNCHANGED <<usersVars, overwrote>>

\* Mutant of ShowsEditingButtons: Confirm and Cancel are rendered in both states.
ShowsEditingButtonsAlways(r) == TRUE

\* {isEditing ? (Confirm, Cancel) : (Edit species, Delete)}
ShowsEditingButtons(r) == isEditing[r]

\* startEditing, behind the "Edit species" button (rendered in Viewing).
StartEditing(r) ==
    /\ r \in mounted /\ CanEdit(r) /\ ~ShowsEditingButtons(r)
    /\ isEditing' = [isEditing EXCEPT ![r] = TRUE]
    /\ lastEvent' = Event("edit", r, "")
    /\ UNCHANGED <<store, present, species, mounted, form, formDefaults, updates,
                   deletes, toast, refreshPending, lastSaved, nRequests, nChanges>>
    /\ UNCHANGED <<usersVars, overwrote>>

\* What the user can type or select in each field while Editing.
SciNameTexts == {<<" ">>, <<"b", " ">>}
CommonNameTexts == {<<>>, <<" ", "c">>}
KingdomOptions == {"Fungi"}
PopulationTexts == {Null, Some(Num(1, 5)), Some(Num(2, 0))}
ImageTexts == {<<>>, <<"a">>, <<" ", "a", ":">>}
DescriptionTexts == {<<" ">>, <<"d", " ">>}
EndangeredOptions == {"true", "false"}

EventValues(f) ==
    CASE f = "scientific_name"  -> SciNameTexts
      [] f = "common_name"      -> CommonNameTexts
      [] f = "kingdom"          -> KingdomOptions
      [] f = "total_population" -> PopulationTexts
      [] f = "image"            -> ImageTexts
      [] f = "description"      -> DescriptionTexts
      [] f = "endangered"       -> EndangeredOptions

Fields == {"scientific_name", "common_name", "kingdom", "total_population",
           "image", "description", "endangered"}

\* +event.target.value of a number input: the empty text (Null) converts to 0.
UnaryPlus(text) == IF text = Null THEN Num(0, 0) ELSE Val(text)

\* Mutant of FieldOnChange: a cleared population field is stored as null.
FieldOnChangeClearedAsNull(f, ev) ==
    CASE f = "scientific_name"  -> ev
      [] f = "common_name"      -> Some(ev)
      [] f = "kingdom"          -> ev
      [] f = "total_population" -> IF ev = Null THEN Null ELSE Some(Val(ev))
      [] f = "image"            -> Some(ev)
      [] f = "description"      -> Some(ev)
      [] f = "endangered"       -> (ev = "true")

\* The value each field's onChange stores in the form.
FieldOnChange(f, ev) ==
    CASE f = "scientific_name"  -> ev
      [] f = "common_name"      -> Some(ev)
      [] f = "kingdom"          -> ev
      [] f = "total_population" -> Some(UnaryPlus(ev))
      [] f = "image"            -> Some(ev)
      [] f = "description"      -> Some(ev)
      [] f = "endangered"       -> (ev = "true")

\* A change event on field f of editor r (inputs are readOnly, and the selects
\* are not rendered, unless isEditing).
ChangeField(r, f, ev) ==
    /\ r \in mounted /\ isEditing[r]
    /\ nChanges < MaxChanges
    /\ form' = [form EXCEPT ![r][f] = FieldOnChange(f, ev)]
    /\ nChanges' = nChanges + 1
    /\ lastEvent' = Event("change", r, f)
    /\ UNCHANGED <<store, present, species, mounted, isEditing, formDefaults,
                   updates, deletes, toast, refreshPending, lastSaved, nRequests>>
    /\ UNCHANGED <<usersVars, overwrote>>

\* Mutant of UpdateRequest: the raw form values are sent instead of the parsed ones.
UpdateRequestRaw(r, input, raw) ==
    [id |-> species[r].id, input |-> raw, raw |-> raw, n |-> nRequests + 1]

\* Mutant of UpdateRequest: the row's identifier and author are sent with the
\* validated fields.
UpdateRequestWholeRow(r, input, raw) ==
    [id |-> species[r].id,
     input |-> [k \in DOMAIN input \cup {"id", "author"} |->
                   IF k \in DOMAIN input THEN input[k]
                   ELSE IF k = "id" THEN species[r].id ELSE species[r].author],
     raw |-> raw, n |-> nRequests + 1]

\* supabase.from("species").update(input).eq("id", species.id)
UpdateRequest(r, input, raw) ==
    [id |-> species[r].id, input |-> input, raw |-> raw, n |-> nRequests + 1]

\* form.handleSubmit(onSubmit), behind the Confirm submit button (rendered in
\* Editing): validate, and on success run onSubmit up to its await.
HandleSubmit(r) ==
    /\ r \in mounted /\ CanEdit(r) /\ ShowsEditingButtons(r)
    /\ SchemaOk(form[r]) => nRequests < MaxRequests
    /\ IF SchemaOk(form[r])
       THEN /\ updates' = updates \cup {UpdateRequest(r, SchemaOutput(form[r]), form[r])}
            /\ nRequests' = nRequests + 1
            /\ lastEvent' = Event("submit", r, "valid")
       ELSE /\ lastEvent' = Event("submit", r, "invalid")
            /\ UNCHANGED <<updates, nRequests>>
    /\ UNCHANGED <<store, present, species, mounted, isEditing, form, formDefaults,
                   deletes, toast, refreshPending, lastSaved, nChanges>>
    /\ UNCHANGED <<usersVars, overwrote>>

\* Mutant of ErrorToast: a fixed text is shown instead of the error's message.
ErrorToastFixedText(message) ==
    [title |-> "Something went wrong.", description |-> <<"error", <<>>>>,
     variant |-> "destructive"]

ErrorToast(message) ==
    [title |-> "Something went wrong.", description |-> <<message, <<>>>>,
     variant |-> "destructive"]

SavedToast(input) ==
    [title |-> "Changes Saved!",
     description |-> <<"Saved your changes to ", input.scientific_name>>,
     variant |-> "default"]

DeletedToast ==
    [title |-> "Species Deleted!",
     description |-> <<"Your card has been successfully deleted", <<>>>>,
     variant |-> "default"]

\* The value column k takes from the request's value v (endangered is a
\* nullable column filled with a boolean).
ColumnValue(k, v) == IF k = "endangered" THEN Some(v) ELSE v

\* The row after a partial update: the columns named in the request take the
\* request's values, the others keep theirs.
UpdatedRow(row, input) ==
    [k \in DOMAIN row |-> IF k \in DOMAIN input THEN ColumnValue(k, input[k])
                                                ELSE row[k]]

\* Mutant of HasError: the error of the response is ignored.
HasErrorIgnored(outcome) == FALSE

\* if (error): the outcome of a request is "ok" or the error's message.
HasError(outcome) == outcome # "ok"

\* Mutant of EditingAfterSave: the editor is left in its current state.
EditingAfterSaveKept(r) == isEditing[r]

\* setIsEditing(false) after a successful update.
EditingAfterSave(r) == FALSE

\* Mutant of FormAfterSave: the form keeps the values it has when the response
\* arrives.
FormAfterSaveKept(r, input) == form[r]

\* form.reset(input) after a successful update.
FormAfterSave(r, input) == input

\* What a response to update request q finds in its editor: the editor already
\* back in Viewing, form values edited since Confirm, or the form as submitted.
FoundInEditor(q) ==
    IF ~isEditing[q.id] THEN "viewing"
    ELSE IF form[q.id] # q.raw THEN "edited"
    ELSE "submitted"

\* onSubmit after its await: the update request q resolves with outcome
\* "ok" or an error message.
UpdateResolves(q, outcome) ==
    /\ q \in updates
    /\ updates' = updates \ {q}
    /\ lastEvent' = Event("updateResolved", q.id, outcome)
    /\ store' = IF outcome = "ok" /\ q.id \in present
                THEN [store EXCEPT ![q.id] = UpdatedRow(store[q.id], q.input)]
                ELSE store
    /\ lastSaved' = IF outcome = "ok" THEN [lastSaved EXCEPT ![q.id] = q.input]
                    ELSE lastSaved
    /\ overwrote' = IF outcome = "ok" /\ q.id \in mounted
                    THEN FoundInEditor(q)
                    ELSE overwrote
    /\ IF HasError(outcome)
       THEN /\ toast' = ErrorToast(outcome)
            /\ UNCHANGED <<isEditing, form, formDefaults, refreshPending>>
       ELSE /\ IF q.id \in mounted
               THEN /\ isEditing' = [isEditing EXCEPT ![q.id] = EditingAfterSave(q.id)]
                    /\ form' = [form EXCEPT ![q.id] = FormAfterSave(q.id, q.input)]
                    /\ formDefaults' = [formDefaults EXCEPT ![q.id] = q.input]
               ELSE UNCHANGED <<isEditing, form, formDefaults>>
            /\ refreshPending' = TRUE
            /\ toast' = SavedToast(q.input)
    /\ UNCHANGED <<present, species, mounted, deletes, nRequests, nChanges>>
    /\ UNCHANGED usersVars

\* form.reset(defaultValues) in handleCancel.
CancelReset(r) == DefaultValues(species[r])

\* Mutant of CancelConfirmed: the answer to the prompt is not looked at.
CancelConfirmedAlways(answer) == TRUE

\* window.confirm("Revert all unsaved changes?")
CancelConfirmed(answer) == answer

\* handleCancel, behind the Cancel button (rendered in Editing); answer is the
\* user's answer to window.confirm.
HandleCancel(r, answer) ==
    /\ r \in mounted /\ CanEdit(r) /\ ShowsEditingButtons(r)
    /\ lastEvent' = Event("cancel", r, IF answer THEN "yes" ELSE "no")
    /\ IF ~CancelConfirmed(answer)
       THEN UNCHANGED <<form, formDefaults, isEditing>>
       ELSE /\ form' = [form EXCEPT ![r] = CancelReset(r)]
            /\ formDefaults' = [formDefaults EXCEPT ![r] = CancelReset(r)]
            /\ isEditing' = [isEditing EXCEPT ![r] = FALSE]
    /\ UNCHANGED <<store, present, species, mounted, updates, deletes, toast,
                   refreshPending, lastSaved, nRequests, nChanges>>
    /\ UNCHANGED <<usersVars, overwrote>>

\* supabase.from("species").delete().eq("id", species.id)
DeleteRequest(r) == [id |-> species[r].id, n |-> nRequests + 1]

\* Mutant of DeleteConfirmed: the answer to the prompt is not looked at.
DeleteConfirmedAlways(answer) == TRUE

\* window.confirm("Delete the species?")
DeleteConfirmed(answer) == answer

\* handleDelete up to its await, behind the Delete button (rendered in Viewing).
HandleDelete(r, answer) ==
    /\ r \in mounted /\ CanEdit(r) /\ ~ShowsEditingButtons(r)
    /\ DeleteConfirmed(answer) => nRequests < MaxRequests
    /\ IF ~DeleteConfirmed(answer)
       THEN UNCHANGED <<deletes, nRequests>>
       ELSE /\ deletes' = deletes \cup {DeleteRequest(r)}
            /\ nRequests' = nRequests + 1
    /\ lastEvent' = Event("delete", r, IF answer THEN "yes" ELSE "no")
    /\ UNCHANGED <<store, present, species, mounted, isEditing, form, formDefaults,
                   updates, toast, refreshPending, lastSaved, nChanges>>
    /\ UNCHANGED <<usersVars, overwrote>>

\* Mutant of RefreshAfterDelete: router.refresh() is not called.
RefreshAfterDeleteSkipped == refreshPending

\* router.refresh() after a successful delete: a reload is now pending.
RefreshAfterDelete == TRUE

\* handleDelete after its await.
DeleteResolves(q, outcome) ==
    /\ q \in deletes
    /\ deletes' = deletes \ {q}
    /\ lastEvent' = Event("deleteResolved", q.id, outcome)
    /\ present' = IF outcome = "ok" THEN present \ {q.id} ELSE present
    /\ IF HasError(outcome)
       THEN /\ toast' = ErrorToast(outcome)
            /\ UNCHANGED refreshPending
       ELSE /\ refreshPending' = RefreshAfterDelete
            /\ toast' = DeletedToast
    /\ UNCHANGED <<store, species, mounted, isEditing, form, formDefaults, updates,
                   lastSaved, nRequests, nChanges>>
    /\ UNCHANGED <<usersVars, overwrote>>

\* The reload started by router.refresh() lands: every editor is rendered again
\* with its row as it is in the table, and editors of deleted rows unmount.
Reload ==
    /\ refreshPending
    /\ refreshPending' = FALSE
    /\ species' = [r \in Records |-> IF r \in present THEN store[r] ELSE species[r]]
    /\ mounted' = mounted \cap present
    /\ lastEvent' = Event("reload", 0, "")
    /\ UNCHANGED <<store, present, isEditing, form, formDefaults, updates, deletes,
                   toast, lastSaved, nRequests, nChanges>>
    /\ UNCHANGED <<usersVars, overwrote>>

Outcomes == {"ok"} \cup ErrorMessages

Next ==
    \/ \E r \in Records : StartEditing(r)
    \/ \E r \in Records, f \in Fields : \E ev \in EventValues(f) : ChangeField(r, f, ev)
    \/ \E r \in Records : HandleSubmit(r)
    \/ \E q \in updates, o \in Outcomes : UpdateResolves(q, o)
    \/ \E r \in Records, answer \in BOOLEAN : HandleCancel(r, answer)
    \/ \E r \in Records, answer \in BOOLEAN : HandleDelete(r, answer)
    \/ \E q \in deletes, o \in Outcomes : DeleteResolves(q, o)
    \/ Reload

Spec == Init /\ [][Next]_vars

---------------------------------------------------------------------------
\* speciesSchema on its own: the first editor is Editing with any raw form
\* value, and Confirm is pressed.

RawSciNames == {<<>>, <<" ">>, <<" ", "a", " ">>}
RawOptionalTexts == {Null, Some(<<>>), Some(<<" ">>), Some(<<" ", "c", " ">>)}
RawKingdoms == {"Animalia", "Bacteria", "Virus"}
RawPopulations ==
    {Null, Some(Num(-1, 0)), Some(Num(0, 0)), Some(Num(0, 5)), Some(Num(1, 0)),
     Some(Num(1, 5))}
RawImages == {Null, Some(<<>>), Some(<<" ">>), Some(<<"a">>), Some(<<" ", "a", ":">>)}

RawForms ==
    [scientific_name : RawSciNames, common_name : RawOptionalTexts,
     kingdom : RawKingdoms, total_population : RawPopulations, image : RawImages,
     description : RawOptionalTexts, endangered : BOOLEAN]

InitSchema ==
    /\ store = [r \in Records |-> InitialRow(r, "u2")]
    /\ present = Records
    /\ species = store
    /\ mounted = Records
    /\ isEditing = [r \in Records |-> r = 1]
    /\ \E raw \in RawForms :
           form = [r \in Records |-> IF r = 1 THEN raw ELSE DefaultValues(store[r])]
    /\ formDefaults = [r \in Records |-> DefaultValues(store[r])]
    /\ updates = {}
    /\ deletes = {}
    /\ toast = NoToast
    /\ refreshPending = FALSE
    /\ lastEvent = Event("change", 1, "")
    /\ lastSaved = formDefaults
    /\ nRequests = 0
    /\ nChanges = MaxChanges
    /\ overwrote = "nothing"
    /\ UsersIdle

NextSchema ==
    \/ \E r \in Records : HandleSubmit(r)
    \/ \E q \in updates, o \in Outcomes : UpdateResolves(q, o)

SpecSchema == InitSchema /\ [][NextSchema]_vars

---------------------------------------------------------------------------
\* Two editors of the same author: both rows belong to the signed-in user, and
\* the user changes the kingdom select only.

SelectFields == {"kingdom"}

InitOwn == InitWith(CurrentUser)

NextOwn ==
    \/ \E r \in Records : StartEditing(r)
    \/ \E r \in Records, f \in SelectFields : \E ev \in EventValues(f) : ChangeField(r, f, ev)
    \/ \E r \in Records : HandleSubmit(r)
    \/ \E q \in updates, o \in Outcomes : UpdateResolves(q, o)
    \/ \E r \in Records, answer \in BOOLEAN : HandleCancel(r, answer)
    \/ \E r \in Records, answer \in BOOLEAN : HandleDelete(r, answer)
    \/ \E q \in deletes, o \in Outcomes : DeleteResolves(q, o)
    \/ Reload

SpecOwn == InitOwn /\ [][NextOwn]_vars

---------------------------------------------------------------------------
\* The profile list page (UsersList).

\* Bound of the model: rows of the profiles table.
MaxProfiles == 4

ProfileIds == 1..MaxProfiles

\* The row of the profiles table with identifier i.
ProfileRow(i) ==
    [id |-> i, display_name |-> <<"n", i>>, email |-> <<"m", i>>,
     biography |-> <<"b", i>>]

\* .order("id", { ascending: false })
RECURSIVE OrderDescending(_)
OrderDescending(ids) ==
    IF ids = {} THEN <<>>
    ELSE LET high == CHOOSE i \in ids : \A j \in ids : i >= j
         IN  <<high>> \o OrderDescending(ids \ {high})

\* supabase.from("profiles").select("*").order("id", { ascending: false })
SelectProfiles(table) ==
    LET ids == OrderDescending(table)
    IN  [k \in 1..Len(ids) |-> ProfileRow(ids[k])]

SessionMissingNever(s) == FALSE

\* if (!session)
SessionMissing(s) == s = Null

HasProfilesNonNull(data) == data # Null

\* profiles?.length > 0
HasProfiles(data) == data # Null /\ Len(Val(data)) > 0

\* One profile-card element.
ProfileCard(profile) ==
    [key |-> profile.id, name |-> profile.display_name, email |-> profile.email,
     bio |-> profile.biography]

NoProfilesFound == "No profiles found."

\* The element UsersList returns for the fetched data.
RenderProfiles(data) ==
    IF HasProfiles(data)
    THEN [cards |-> [k \in 1..Len(Val(data)) |-> ProfileCard(Val(data)[k])],
          fallback |-> ""]
    ELSE [cards |-> <<>>, fallback |-> NoProfilesFound]

\* UsersList up to its second await: getSession resolves with s; without a
\* session the request is redirected, otherwise the profiles fetch is issued.
SessionResolves(s) ==
    /\ listPc = "start"
    /\ session' = s
    /\ IF SessionMissing(s)
       THEN /\ listPc' = "redirected"
            /\ fetches' = fetches
       ELSE /\ listPc' = "fetching"
            /\ fetches' = fetches + 1
    /\ UNCHANGED <<profiles, fetched, page>>
    /\ UNCHANGED editorVars

\* UsersList after its second await: the fetch resolves and the page renders.
FetchResolves(outcome) ==
    /\ listPc = "fetching"
    /\ fetched' = IF outcome = "ok" THEN Some(SelectProfiles(profiles)) ELSE Null
    /\ page' = RenderProfiles(fetched')
    /\ listPc' = "rendered"
    /\ UNCHANGED <<profiles, session, fetches>>
    /\ UNCHANGED editorVars

Sessions == {Null} \cup {Some(u) : u \in Users}

\* A request for the page, over any content of the profiles table.
InitUsers ==
    /\ profiles \in SUBSET ProfileIds
    /\ session = Null
    /\ listPc = "start"
    /\ fetches = 0
    /\ fetched = Null
    /\ page = NoPage
    /\ EditorsMounted("u2")

NextUsers ==
    \/ \E s \in Sessions : SessionResolves(s)
    \/ \E o \in Outcomes : FetchResolves(o)

SpecUsers == InitUsers /\ [][NextUsers]_vars

---------------------------------------------------------------------------

---------------------------------------------------------------------------
\* Properties.

UpdatesFor(r) == {q \in updates : q.id = r}
DeletesFor(r) == {q \in deletes : q.id = r}
ButtonEvents == {"edit", "submit", "cancel", "delete"}

\* C1: for a record whose author is not the session user, the editor stays in
\* Viewing, no update or delete request for it is ever in flight, and none of
\* Edit, Confirm, Cancel, Delete ever runs on it.
C1_ForeignRecordIsReadOnly ==
    \A r \in Records :
        store[r].author # CurrentUser =>
            /\ ~isEditing[r]
            /\ UpdatesFor(r) = {} /\ DeletesFor(r) = {}
            /\ ~(lastEvent.rec = r /\ lastEvent.op \in ButtonEvents)
            /\ form[r] = DefaultValues(InitialRow(r, store[r].author))

\* C1 witness: a foreign record is rendered, and the session user has worked on
\* another record up to a landed reload.
C1_Witness ==
    \E r \in mounted :
        /\ store[r].author # CurrentUser
        /\ lastEvent.op = "reload"
        /\ nRequests > 0

\* C2: at most one update or delete request per record is in flight.
C2_AtMostOneRequestInFlight ==
    \A r \in Records : Cardinality(UpdatesFor(r)) + Cardinality(DeletesFor(r)) <= 1

\* C3: a confirmed Cancel resets every form field to the last-saved values of
\* the record and returns the editor to Viewing.
C3_CancelRestoresLastSaved ==
    [][\A r \in Records :
          lastEvent' = Event("cancel", r, "yes") =>
              form'[r] = lastSaved[r] /\ ~isEditing'[r]]_vars

\* C4: a refused Cancel changes nothing: form values, baseline and the Editing
\* state stay as they were and no request is issued.
C4_RefusedCancelChangesNothing ==
    [][\A r \in Records :
          lastEvent' = Event("cancel", r, "no") =>
              /\ isEditing[r] /\ isEditing'[r]
              /\ UNCHANGED <<form, formDefaults, isEditing, updates, deletes,
                             nRequests, store, present, toast, refreshPending>>]_vars

\* C4 witness: Cancel was refused on a form with unsaved edits, still Editing.
C4_Witness ==
    \E r \in Records :
        /\ lastEvent = Event("cancel", r, "no")
        /\ isEditing[r]
        /\ form[r] # formDefaults[r]

\* C5: when an update request resolves successfully, the form's values and
\* baseline become the submitted values, the editor is in Viewing, the success
\* notification is surfaced and a reload is pending.
C5_SuccessfulUpdate ==
    [][\A q \in updates :
          (q \notin updates' /\ lastEvent' = Event("updateResolved", q.id, "ok")
             /\ q.id \in mounted) =>
              /\ form'[q.id] = q.input
              /\ formDefaults'[q.id] = q.input
              /\ ~isEditing'[q.id]
              /\ toast'.title = "Changes Saved!"
              /\ toast'.description = <<"Saved your changes to ", q.input.scientific_name>>
              /\ toast'.variant # "destructive"
              /\ refreshPending']_vars

\* C5 witness: an update that changed the record has just succeeded.
C5_Witness ==
    \E r \in mounted :
        /\ lastEvent = Event("updateResolved", r, "ok")
        /\ ~isEditing[r]
        /\ form[r] # DefaultValues(InitialRow(r, store[r].author))
        /\ form[r] = formDefaults[r]
        /\ toast.title = "Changes Saved!"
        /\ refreshPending

\* C6: when an update request resolves with an error, the error notification
\* carries the error's message, and the editor's state, the form values, the
\* baseline, the store and the pending reload are left as they were.
C6_FailedUpdate ==
    [][\A q \in updates, m \in ErrorMessages :
          (q \notin updates' /\ lastEvent' = Event("updateResolved", q.id, m)) =>
              /\ toast'.variant = "destructive"
              /\ toast'.description[1] = m
              /\ UNCHANGED <<isEditing, form, formDefaults, refreshPending, store,
                             present, species>>]_vars

\* C6 witness: an update has just failed with message "e2"; the editor is still
\* Editing with its unsaved edits and no reload is pending.
C6_Witness ==
    \E r \in mounted :
        /\ lastEvent = Event("updateResolved", r, "e2")
        /\ isEditing[r]
        /\ form[r] # formDefaults[r]
        /\ toast = ErrorToast("e2")
        /\ ~refreshPending

\* The validation contract, in the words of the specification.
IsBlank(s) == \A i \in 1..Len(s) : s[i] = Space
SixKingdoms == {"Animalia", "Plantae", "Fungi", "Protista", "Archaea", "Bacteria"}
IsPositiveInteger(n) == n.tenths = 0 /\ n.int >= 1
MeetsContract(v) ==
    /\ ~IsBlank(v.scientific_name)
    /\ v.kingdom \in SixKingdoms
    /\ v.total_population # Null => IsPositiveInteger(Val(v.total_population))

\* C7: Confirm on a form that breaks the validation contract issues no update
\* request and changes neither the editor state nor the form values, and every
\* update request in flight carries a field set that meets the contract.
C7_ValidationGatesSubmission ==
    /\ [](\A q \in updates : MeetsContract(q.input) /\ MeetsContract(q.raw))
    /\ [][\A r \in Records :
             (lastEvent'.op = "submit" /\ lastEvent'.rec = r /\ ~MeetsContract(form[r])) =>
                 UNCHANGED <<updates, nRequests, isEditing, form, formDefaults>>]_vars

\* C7 witness: Confirm was pressed on a form whose kingdom is outside the six
\* values, and no request is in flight.
C7_Witness ==
    \E r \in Records :
        /\ lastEvent.op = "submit" /\ lastEvent.rec = r
        /\ form[r].kingdom \notin SixKingdoms
        /\ ~IsBlank(form[r].scientific_name)
        /\ isEditing[r]
        /\ updates = {}

\* s with the spaces at both ends removed is t.
IsTrimOf(t, s) ==
    /\ t # <<>> /\ t[1] # Space /\ t[Len(t)] # Space
    /\ \E i \in 1..Len(s) :
          /\ i + Len(t) - 1 <= Len(s)
          /\ SubSeq(s, i, i + Len(t) - 1) = t
          /\ IsBlank(SubSeq(s, 1, i - 1))
          /\ IsBlank(SubSeq(s, i + Len(t), Len(s)))

OptionalTextFields == {"common_name", "image", "description"}

\* C8: in every update request no optional text field carries a blank string: a
\* blank (or absent) value is sent as null, and a non-blank value is sent trimmed.
C8_BlankOptionalTextSentAsNull ==
    \A q \in updates, f \in OptionalTextFields :
        /\ q.input[f] # Null => ~IsBlank(Val(q.input[f]))
        /\ (q.raw[f] = Null \/ IsBlank(Val(q.raw[f]))) => q.input[f] = Null
        /\ (q.raw[f] # Null /\ ~IsBlank(Val(q.raw[f]))) =>
               (q.input[f] # Null /\ IsTrimOf(Val(q.input[f]), Val(q.raw[f])))

\* C8 witness: a request is in flight whose common name was typed blank and was
\* sent as null, and whose description was typed with spaces around it.
C8_Witness ==
    \E q \in updates :
        /\ q.raw.common_name = Some(<<" ">>)
        /\ q.input.common_name = Null
        /\ q.raw.description = Some(<<" ", "c", " ">>)
        /\ q.input.description = Some(<<"c">>)

\* Every field but image passes validation.
ValidButForImage(v) ==
    /\ MeetsContract(v)
    /\ v.endangered \in BOOLEAN

\* C9: Confirm on a form that is otherwise valid and whose image is a blank
\* string issues an update request with image null.
C9_BlankImageAccepted ==
    [][\A r \in Records :
          (/\ lastEvent'.op = "submit" /\ lastEvent'.rec = r
           /\ ValidButForImage(form[r])
           /\ form[r].image # Null /\ IsBlank(Val(form[r].image))) =>
              \E q \in updates' \ updates : q.id = r /\ q.input.image = Null]_vars

\* The field set the editor sends for form values v.
FormFields == {"scientific_name", "common_name", "kingdom", "total_population",
               "image", "description", "endangered"}

\* C10: a Confirm that passes validation sends one update keyed by the record's
\* identifier whose fields are the current form values, normalized; endangered
\* is always a boolean in the form and in the request; and when the update
\* succeeds the form shows the values that were sent.
C10_ConfirmSendsFormValues ==
    /\ [](/\ \A r \in mounted : form[r].endangered \in BOOLEAN
          /\ \A q \in updates : q.input.endangered \in BOOLEAN)
    /\ [][\A r \in Records :
             lastEvent' = Event("submit", r, "valid") =>
                 \E q \in updates' :
                     /\ updates' \ updates = {q}
                     /\ q.id = store[r].id
                     /\ DOMAIN q.input = FormFields
                     /\ q.input.kingdom = form[r].kingdom
                     /\ q.input.total_population = form[r].total_population
                     /\ q.input.endangered = form[r].endangered
                     /\ IsTrimOf(q.input.scientific_name, form[r].scientific_name)
                     /\ \A f \in OptionalTextFields :
                            IF form[r][f] = Null \/ IsBlank(Val(form[r][f]))
                            THEN q.input[f] = Null
                            ELSE /\ q.input[f] # Null
                                 /\ IsTrimOf(Val(q.input[f]), Val(form[r][f]))]_vars
    /\ [][\A q \in updates :
             (q \notin updates' /\ lastEvent' = Event("updateResolved", q.id, "ok")
                /\ q.id \in mounted) =>
                 /\ form'[q.id] = q.input
                 /\ ~isEditing'[q.id]
                 /\ q.id \in present => DefaultValues(store'[q.id]) = q.input]_vars

\* C10 witness: the first record, stored with endangered absent, was edited to
\* endangered and confirmed; the update succeeded and the form shows Endangered.
C10_Witness ==
    /\ lastEvent = Event("updateResolved", 1, "ok")
    /\ InitialRow(1, "u1").endangered = Null
    /\ form[1].endangered = TRUE
    /\ store[1].endangered = Some(TRUE)
    /\ ~isEditing[1]

\* C11: a delete request is issued only by a Delete whose prompt was answered
\* yes, and is keyed by that record's identifier; a refused Delete issues no
\* request, surfaces no notification, triggers no reload and leaves the editor
\* state, the form and the store as they were.
C11_DeleteRequiresConfirmation ==
    [][/\ \A q \in deletes' \ deletes :
              /\ lastEvent' = Event("delete", q.id, "yes")
              /\ deletes' = deletes \cup {q}
       /\ \A r \in Records :
              lastEvent' = Event("delete", r, "yes") =>
                  \E q \in deletes' \ deletes : q.id = store[r].id
       /\ \A r \in Records :
              lastEvent' = Event("delete", r, "no") =>
                  UNCHANGED <<deletes, updates, nRequests, toast, refreshPending,
                              isEditing, form, formDefaults, store, present,
                              species, mounted>>]_vars

\* C11 witness: Delete was refused on a record of the session user; nothing is
\* in flight and the record is still there.
C11_Witness ==
    \E r \in mounted :
        /\ lastEvent = Event("delete", r, "no")
        /\ store[r].author = CurrentUser
        /\ deletes = {} /\ nRequests = 0
        /\ r \in present
        /\ toast = NoToast /\ ~refreshPending

\* C12: when a delete request succeeds, the "Species Deleted!" notification is
\* surfaced and a reload is pending; a deleted record never comes back, and
\* every reload that lands renders editors only for records still in the table.
C12_DeletedRecordLeavesTheList ==
    [][/\ \A q \in deletes :
              (q \notin deletes' /\ lastEvent' = Event("deleteResolved", q.id, "ok")) =>
                  /\ toast' = DeletedToast
                  /\ refreshPending'
                  /\ q.id \notin present'
       /\ present' \subseteq present
       /\ lastEvent'.op = "reload" =>
              /\ mounted' \subseteq present'
              /\ \A r \in mounted' : species'[r] = store'[r]]_vars

\* C12 witness: the first record was deleted, the notification is up, and the
\* reload has landed without it while the other record is still listed.
C12_Witness ==
    /\ lastEvent.op = "reload"
    /\ 1 \notin present /\ 1 \notin mounted
    /\ 2 \in mounted
    /\ toast = DeletedToast
    /\ ~refreshPending

\* C13: when a delete request resolves with an error, the error notification
\* carries the error's message, no reload is triggered, the record stays in
\* the table, and the editor's state and form values are left as they were.
C13_FailedDelete ==
    [][\A q \in deletes, m \in ErrorMessages :
          (q \notin deletes' /\ lastEvent' = Event("deleteResolved", q.id, m)) =>
              /\ toast'.title = "Something went wrong."
              /\ toast'.variant = "destructive"
              /\ toast'.description[1] = m
              /\ UNCHANGED <<refreshPending, present, store, species, mounted,
                             isEditing, form, formDefaults>>]_vars

\* C13 witness: a delete of the first record has just failed with message "e1";
\* the record is still in the table and listed, and no reload is pending.
C13_Witness ==
    /\ lastEvent = Event("deleteResolved", 1, "e1")
    /\ toast = ErrorToast("e1")
    /\ 1 \in present /\ 1 \in mounted
    /\ ~refreshPending
    /\ deletes = {}

\* C14: the list page issues the profiles fetch only after a session has been
\* found; without a session the request is redirected, no fetch is ever issued
\* and nothing is rendered.
C14_FetchOnlyWithSession ==
    /\ fetches > 0 => session # Null
    /\ listPc \in {"fetching", "rendered"} => session # Null /\ fetches = 1
    /\ (listPc # "start" /\ session = Null) =>
           /\ listPc = "redirected"
           /\ fetches = 0
           /\ fetched = Null
           /\ page = NoPage
    /\ listPc = "redirected" => session = Null

C14_Witness ==
    /\ listPc = "redirected"
    /\ session = Null
    /\ fetches = 0
    /\ Cardinality(profiles) = 2

\* C15: for a signed-in session the rendered page is exactly the fallback
\* message and no cards when the fetched data is absent (a failed fetch) or
\* empty; otherwise it is one card per fetched row, in the fetch's order, which
\* is by identifier descending over the rows of the table, and no fallback.
C15_CardsOrFallback ==
    listPc = "rendered" =>
        /\ session # Null
        /\ IF fetched = Null \/ Val(fetched) = <<>>
           THEN page = [cards |-> <<>>, fallback |-> "No profiles found."]
           ELSE LET rows == Val(fetched)
                IN  /\ page.fallback = ""
                    /\ Len(page.cards) = Len(rows)
                    /\ \A k \in 1..Len(rows) :
                           /\ page.cards[k].key = rows[k].id
                           /\ page.cards[k].name = rows[k].display_name
                           /\ page.cards[k].email = rows[k].email
                           /\ page.cards[k].bio = rows[k].biography
                           /\ rows[k] = ProfileRow(rows[k].id)
                    /\ \A k \in 1..(Len(rows) - 1) : rows[k].id > rows[k + 1].id
                    /\ {rows[k].id : k \in 1..Len(rows)} = profiles

C15_Witness ==
    /\ listPc = "rendered"
    /\ fetched # Null
    /\ Len(page.cards) = 3
    /\ page.cards[1].key = 4
    /\ page.cards[3].key = 1
    /\ page.fallback = ""

\* C16: every editor starts in Viewing and is always in one of two states; its
\* state changes only by Edit (Viewing to Editing), by a successful response to
\* Confirm (to Viewing) and by a confirmed Cancel (Editing to Viewing); an
\* update is requested only by Confirm in Editing and a delete only in Viewing.
C16_TwoStateMachine ==
    /\ \A r \in Records : ~isEditing[r]
    /\ [](isEditing \in [Records -> BOOLEAN])
    /\ [][/\ \A r \in Records :
                 isEditing'[r] # isEditing[r] =>
                     \/ /\ lastEvent' = Event("edit", r, "")
                        /\ ~isEditing[r] /\ isEditing'[r]
                     \/ /\ lastEvent' = Event("updateResolved", r, "ok")
                        /\ ~isEditing'[r]
                     \/ /\ lastEvent' = Event("cancel", r, "yes")
                        /\ isEditing[r] /\ ~isEditing'[r]
          /\ \A q \in updates' \ updates :
                 isEditing[q.id] /\ lastEvent' = Event("submit", q.id, "valid")
          /\ \A q \in deletes' \ deletes :
                 ~isEditing[q.id] /\ lastEvent' = Event("delete", q.id, "yes")]_vars

C16_Witness ==
    /\ lastEvent = Event("cancel", 1, "yes")
    /\ ~isEditing[1]
    /\ \E q \in updates : q.id = 1
    /\ deletes = {}

\* C17: an event handled by one record's editor (Edit, a field change, Confirm,
\* Cancel, Delete, a response) leaves the state, the form values, the row shown
\* and the mounting of every other record's editor unchanged; the reload, the
\* one cross-editor effect, leaves every editor's state and form values alone.
C17_EditorsIndependent ==
    [][/\ lastEvent'.op # "reload" =>
              \A r \in Records \ {lastEvent'.rec} :
                  /\ isEditing'[r] = isEditing[r]
                  /\ form'[r] = form[r]
                  /\ formDefaults'[r] = formDefaults[r]
                  /\ species'[r] = species[r]
                  /\ (r \in mounted') = (r \in mounted)
       /\ lastEvent'.op = "reload" =>
              UNCHANGED <<isEditing, form, formDefaults>>]_vars

C17_Witness ==
    /\ lastEvent = Event("updateResolved", 1, "ok")
    /\ ~isEditing[1]
    /\ isEditing[2]
    /\ form[2] # DefaultValues(species[2])
    /\ 2 \in mounted

\* C18: when an update in flight resolves successfully, whatever its editor
\* holds at that moment (the form as submitted, values edited during the
\* flight, or the Viewing state left by a Cancel confirmed during the flight),
\* the row is updated with the values captured at Confirm, the editor ends in
\* Viewing and its form holds those captured values.
C18_ResponseOverridesInFlightChanges ==
    [][\A q \in updates :
          (/\ q \notin updates'
           /\ lastEvent' = Event("updateResolved", q.id, "ok")
           /\ q.id \in mounted
           /\ FoundInEditor(q) \in {"submitted", "edited", "viewing"}) =>
              /\ overwrote' = FoundInEditor(q)
              /\ ~isEditing'[q.id]
              /\ form'[q.id] = q.input
              /\ q.id \in present => store'[q.id] = UpdatedRow(store[q.id], q.input)]_vars

C18_Witness ==
    /\ lastEvent = Event("updateResolved", 1, "ok")
    /\ overwrote = "edited"
    /\ nChanges = 1
    /\ ~isEditing[1]
    /\ form[1] = lastSaved[1]
    /\ store[1].scientific_name = form[1].scientific_name

\* C19: a change event on the total-population field always stores a number (0
\* for a cleared field), never an absent value; an editor's population value
\* goes from a number to absent only when a confirmed Cancel or a successful
\* response to Confirm resets the form; and Confirm on a form whose population
\* is the 0 of a cleared field is refused: no update is requested.
C19_ClearedPopulationIsZero ==
    [][\A r \in Records :
          /\ lastEvent' = Event("change", r, "total_population") =>
                 /\ form'[r].total_population # Null
                 /\ Val(form'[r].total_population).int \in Nat
                 /\ Val(form'[r].total_population).tenths \in 0..9
          /\ (form[r].total_population # Null /\ form'[r].total_population = Null) =>
                 \/ lastEvent' = Event("cancel", r, "yes")
                 \/ lastEvent' = Event("updateResolved", r, "ok")
          /\ (lastEvent'.op = "submit" /\ lastEvent'.rec = r
              /\ form[r].total_population = Some(Num(0, 0))) =>
                 /\ lastEvent'.arg = "invalid"
                 /\ updates' = updates]_vars

C19_Witness ==
    /\ lastEvent = Event("submit", 1, "invalid")
    /\ isEditing[1]
    /\ form[1].total_population = Some(Num(0, 0))
    /\ form[1] = [DefaultValues(species[1]) EXCEPT !.total_population = Some(Num(0, 0))]
    /\ updates = {}
    /\ nRequests = 0

\* C20: no update request carries an identifier or an author field, and no step
\* (a successful update included) changes a row's identifier or author, nor
\* the author that the editor's gate compares with the signed-in user.
C20_UpdatesLeaveIdAndAuthor ==
    /\ [](\A q \in updates :
              /\ "id" \notin DOMAIN q.input
              /\ "author" \notin DOMAIN q.input
              /\ DOMAIN q.input = FormFields)
    /\ [][\A r \in Records :
              /\ store'[r].id = store[r].id
              /\ store'[r].author = store[r].author
              /\ species'[r].author = species[r].author
              /\ CanEdit(r)' = CanEdit(r)]_vars

C20_Witness ==
    /\ lastEvent = Event("updateResolved", 1, "ok")
    /\ store[1].kingdom = "Fungi"
    /\ lastSaved[1].kingdom = "Fungi"
    /\ store[1].id = 1
    /\ store[1].author = CurrentUser
    /\ store[2].author # CurrentUser

====
